---------------------------- MODULE Spec2Model ----------------------------
(***************************************************************************)
(* A model of embed-py-env (src/src/main.rs): the one-shot workflow that   *)
(* assembles an embedded Python distribution.                              *)
(*                                                                         *)
(* Text is modelled as a sequence of tokens.  Decimal digits are always    *)
(* one token each ("3", "9"); fixed literals of the program ("Python",    *)
(* "import site", "Scripts") are one token; so two texts are equal exactly *)
(* when their token sequences are equal.                                   *)
(***************************************************************************)
EXTENDS Integers, Sequences, FiniteSets, TLC

VARIABLES
    pc,          \* position of main: start, check, locate, fetch, merge, patch, bootstrap, reqs, done, failed
    verArg,      \* opt.py_version: [some, val]
    reqsArg,     \* opt.requirements: [some, val]
    platform,    \* the platform the binary was built for
    pathEnv,     \* the PATH variable after env::split_paths: [some, val]
    hostLibs,    \* the search-path entries whose "libs" subdirectory is a directory
    hostFiles,   \* the top-level entries of the host libs directory: name -> content
    pyVersion,   \* py_version: [some, val] where val is the PyVerTuple
    libsDirSrc,  \* libs_dir_src, the local of create_embedded_env
    fs,          \* the target directory: relative path -> [kind, data]
    fs0,         \* history: the target directory when the run started
    before,      \* history: the target directory when the latest phase started
    contents,    \* what read_to_string returned in the patch step: [some, val]
    pthFound,    \* history: the configuration file as the patch step found it
    archiveResp, \* the response to the archive GET: [some, status, body]
    http,        \* the URLs requested so far, in order
    zipOpened,   \* how many response bodies were handed to zip::ZipArchive::new
    extracted,   \* how many archives were extracted into the target directory
    spawned,     \* the child processes started: <<[prog, path]>>
    log,         \* the phases run so far: <<[phase, ok]>>
    err          \* the error main returned: [kind, name]

\* What a run is given and never changes.
inputs == <<verArg, reqsArg, platform, pathEnv, hostLibs, hostFiles, fs0>>

vars == <<pc, inputs, pyVersion, libsDirSrc, fs, before, contents, pthFound, archiveResp, http,
          zipOpened, extracted, spawned, log, err>>

-----------------------------------------------------------------------------
(* Option values and errors *)

None == [some |-> FALSE, val |-> <<>>]

Some(v) == [some |-> TRUE, val |-> v]

NoError == [kind |-> "none", name |-> <<>>]

Error(kind) == [kind |-> kind, name |-> <<>>]

-----------------------------------------------------------------------------
(* Text *)

Digits == <<"0", "1", "2", "3", "4", "5", "6", "7", "8", "9">>

IsDigit(c) == \E i \in 1..10 : Digits[i] = c

DigitVal(c) == (CHOOSE i \in 1..10 : Digits[i] = c) - 1

\* The characters of the Unicode White_Space property, which str::trim
\* removes; those without an escape are named by their code point.
Whitespace ==
    {" ", "\t", "\n", "\r", "\f", "U+000B", "U+0085", "U+00A0", "U+1680",
     "U+2000", "U+2001", "U+2002", "U+2003", "U+2004", "U+2005", "U+2006",
     "U+2007", "U+2008", "U+2009", "U+200A", "U+2028", "U+2029", "U+202F",
     "U+205F", "U+3000"}

\* u16::MAX
U16Max == 65535

\* Display for an unsigned integer: decimal, no sign, no leading zeros.
RECURSIVE DecChars(_)
DecChars(n) ==
    IF n < 10 THEN <<Digits[n + 1]>>
    ELSE DecChars(n \div 10) \o <<Digits[(n % 10) + 1]>>

\* str::trim: leading and trailing whitespace removed.
RECURSIVE TrimStart(_)
TrimStart(s) ==
    IF s # <<>> /\ Head(s) \in Whitespace THEN TrimStart(Tail(s)) ELSE s

RECURSIVE TrimEnd(_)
TrimEnd(s) ==
    IF s # <<>> /\ s[Len(s)] \in Whitespace
    THEN TrimEnd(SubSeq(s, 1, Len(s) - 1))
    ELSE s

Trim(s) == TrimEnd(TrimStart(s))

\* str::split('.') collected: the pieces between the dots; n dots give n+1 pieces.
RECURSIVE SplitDots(_, _, _)
SplitDots(s, cur, acc) ==
    IF s = <<>> THEN Append(acc, cur)
    ELSE IF Head(s) = "." THEN SplitDots(Tail(s), <<>>, Append(acc, cur))
    ELSE SplitDots(Tail(s), Append(cur, Head(s)), acc)

\* A digit loop whose overflow test is off by one.
RECURSIVE ParseDigits_OffByOne(_, _)
ParseDigits_OffByOne(s, acc) ==
    IF s = <<>> THEN [ok |-> TRUE, val |-> acc]
    ELSE IF ~IsDigit(Head(s)) THEN [ok |-> FALSE, val |-> 0]
    ELSE IF acc * 10 + DigitVal(Head(s)) >= U16Max THEN [ok |-> FALSE, val |-> 0]
    ELSE ParseDigits_OffByOne(Tail(s), acc * 10 + DigitVal(Head(s)))

\* The digit loop of u16::from_str: checked multiply and add; any other
\* character is an invalid digit.
RECURSIVE ParseDigits(_, _)
ParseDigits(s, acc) ==
    IF s = <<>> THEN [ok |-> TRUE, val |-> acc]
    ELSE IF ~IsDigit(Head(s)) THEN [ok |-> FALSE, val |-> 0]
    ELSE IF acc * 10 + DigitVal(Head(s)) > U16Max THEN [ok |-> FALSE, val |-> 0]
    ELSE ParseDigits(Tail(s), acc * 10 + DigitVal(Head(s)))

\* str::parse::<u16>: empty fails; a lone sign fails; one leading "+" is
\* accepted; "-" is no digit of an unsigned type.
ParseU16(s) ==
    IF s = <<>> THEN [ok |-> FALSE, val |-> 0]
    ELSE IF Len(s) = 1 /\ Head(s) \in {"+", "-"} THEN [ok |-> FALSE, val |-> 0]
    ELSE IF Head(s) = "+" THEN ParseDigits(Tail(s), 0)
    ELSE ParseDigits(s, 0)

\* python_version_from_str: [ok, kind, val].
python_version_from_str(s) ==
    LET parts == SplitDots(Trim(s), <<>>, <<>>) IN
    IF Len(parts) # 3
    THEN [ok |-> FALSE, kind |-> "InvalidFormat", val |-> <<>>]
    ELSE LET major == ParseU16(parts[1])
             minor == ParseU16(parts[2])
             micro == ParseU16(parts[3])
         IN  IF major.ok /\ minor.ok /\ micro.ok
             THEN [ok |-> TRUE, kind |-> "none",
                   val |-> <<major.val, minor.val, micro.val>>]
             ELSE [ok |-> FALSE, kind |-> "ParseInt", val |-> <<>>]

\* The "{0}.{1}.{2}" of python_embed_zip_url.
FormatVersion(v) ==
    DecChars(v[1]) \o <<".">> \o DecChars(v[2]) \o <<".">> \o DecChars(v[3])

python_embed_zip_url(v) ==
    <<"https://www.python.org/ftp/python/">> \o FormatVersion(v)
        \o <<"/python-">> \o FormatVersion(v) \o <<"-embed-amd64.zip">>

GET_PIP_URL == <<"https://bootstrap.pypa.io/get-pip.py">>

-----------------------------------------------------------------------------
(* Host search path *)

\* format!("Python{}{}", version.0, version.1): the minor is not zero-padded.
TargetPy(v) == <<"Python">> \o DecChars(v[1]) \o DecChars(v[2])

\* A match of the name against any component of the entry.
PathEndsWith_Anywhere(dir, name) == \E i \in 1..Len(dir) : dir[i] = name

\* Path::ends_with for a one-component child: the final component is equal.
PathEndsWith(dir, name) == dir # <<>> /\ dir[Len(dir)] = name

\* dir.join("libs") for a search-path entry (a sequence of components).
LibsOf(dir) == Append(dir, <<"libs">>)

\* A search that takes the first entry of the right name, libs or not.
RECURSIVE FirstHostLibs_NoDirCheck(_, _, _)
FirstHostLibs_NoDirCheck(dirs, name, libsDirs) ==
    IF dirs = <<>> THEN None
    ELSE IF Head(dirs) # <<>> /\ Head(dirs)[Len(Head(dirs))] = name
         THEN Some(LibsOf(Head(dirs)))
         ELSE FirstHostLibs_NoDirCheck(Tail(dirs), name, libsDirs)

\* The filter_map(..).next() of host_python_dir: the first entry, in order,
\* whose name matches and whose libs is a directory (libsDirs).
RECURSIVE FirstHostLibs(_, _, _)
FirstHostLibs(dirs, name, libsDirs) ==
    IF dirs = <<>> THEN None
    ELSE IF PathEndsWith(Head(dirs), name) /\ Head(dirs) \in libsDirs
         THEN Some(LibsOf(Head(dirs)))
         ELSE FirstHostLibs(Tail(dirs), name, libsDirs)

\* host_python_dir: [ok, val, err].
host_python_dir(v, env, libsDirs) ==
    IF ~env.some
    THEN [ok |-> FALSE, val |-> <<>>, err |-> Error("MissingPathEnv")]
    ELSE LET found == FirstHostLibs(env.val, TargetPy(v), libsDirs) IN
         IF found.some
         THEN [ok |-> TRUE, val |-> found.val, err |-> NoError]
         ELSE [ok |-> FALSE, val |-> <<>>,
               err |-> [kind |-> "NotFound", name |-> TargetPy(v)]]

-----------------------------------------------------------------------------
(* The target directory *)

\* opt.output_dir: the default value.
DistDir == <<"pydist">>

\* std::path::MAIN_SEPARATOR of the platform.
DirSep == IF platform = "windows" THEN "\\" ELSE "/"

\* The separator of env::split_paths / env::join_paths of the platform.
PathListSep == IF platform = "windows" THEN ";" ELSE ":"

\* Path::join followed by to_string_lossy, as text.
PathJoin(dir, name) == dir \o <<DirSep, name>>

\* dist_env_path: the separator is the literal of the format string.
dist_env_path(dist_dir) == dist_dir \o <<":">> \o PathJoin(dist_dir, "Scripts")

\* Paths relative to the target directory: sequences of components.
PipRel == << <<"Scripts">>, <<"pip.exe">> >>

GetPipRel == << <<"get-pip.py">> >>

\* The file names an interpreter in the target directory can have.
InterpreterNames == {<<"python.exe">>, <<"python">>}

\* dist_dir.join("python") as Command::new resolves it: the name as it is,
\* and on Windows with ".exe" appended.
PythonRel == IF platform = "windows" THEN << <<"python.exe">> >> ELSE << <<"python">> >>

PthRel(v) == << <<"python">> \o DecChars(v[1]) \o DecChars(v[2]) \o <<"._pth">> >>

\* Where fs_extra::dir::copy puts a top-level entry of the source directory:
\* copy_inside and content_only are false (the defaults the call keeps), so
\* the source directory "libs" itself is placed under the destination.
LibRel(name) == << <<"libs">>, name >>

NoFile == [kind |-> "none", data |-> <<>>]

File(data) == [kind |-> "file", data |-> data]

Dir == [kind |-> "dir", data |-> <<>>]

\* Path::is_file
is_file(files, p) == files[p].kind = "file"

\* Path::exists
exists(files, p) == files[p].kind # "none"

\* File contents come in blocks, one token each, so that a write can stop
\* between two of them.
ArchiveData == <<"ARCHIVE-1", "ARCHIVE-2">>

HostData == <<"HOST-1", "HOST-2">>

\* What the get-pip URL can answer: the script, or an error page.
ScriptBodies == {<<"GET-PIP-1", "GET-PIP-2">>, <<"NOT FOUND">>}

\* What a write of data that fails after the file was created or truncated
\* leaves in it: the part written before the error.
PartlyWritten(data) == {SubSeq(data, 1, n) : n \in 0..(Len(data) - 1)}

\* The entries of f with a name in S.
Restrict(f, S) == [n \in S |-> f[n]]

\* zip extract: every entry of the archive is written, replacing what is there.
Extract(files, entries) ==
    [p \in DOMAIN files |-> IF p \in DOMAIN entries THEN File(entries[p]) ELSE files[p]]

\* A copy that overwrites.
CopyFile_Overwrite(files, dest, data) == File(data)

\* fs_extra::file::copy with skip_exist: an existing destination is left alone.
CopyFile(files, dest, data) ==
    IF exists(files, dest) THEN files[dest] ELSE File(data)

\* fs_extra::dir::copy with depth 1: each top-level file of the source.
CopyLibs(files, src) ==
    [p \in DOMAIN files |->
        IF \E n \in DOMAIN src : p = LibRel(n)
        THEN LET n == CHOOSE n \in DOMAIN src : p = LibRel(n)
             IN  CopyFile(files, p, src[n])
        ELSE files[p]]

\* The commented-out directive and its active form.
SiteOff == <<"#", "import site">>

SiteOn == <<"import site">>

\* str::replacen(.., 1): the first match only.
RECURSIVE Replace_FirstOnly(_, _, _)
Replace_FirstOnly(s, from, to) ==
    IF Len(s) < Len(from) THEN s
    ELSE IF SubSeq(s, 1, Len(from)) = from
         THEN to \o SubSeq(s, Len(from) + 1, Len(s))
         ELSE <<Head(s)>> \o Replace_FirstOnly(Tail(s), from, to)

\* str::replace: every non-overlapping match, left to right.
RECURSIVE Replace(_, _, _)
Replace(s, from, to) ==
    IF Len(s) < Len(from) THEN s
    ELSE IF SubSeq(s, 1, Len(from)) = from
         THEN to \o Replace(SubSeq(s, Len(from) + 1, Len(s)), from, to)
         ELSE <<Head(s)>> \o Replace(Tail(s), from, to)

\* An error handling that tries the failed step again.
Try_Retry(ok, next) == IF ok THEN next ELSE pc

\* The `?` operator and bail!: an error ends the run.
Try(ok, next) == IF ok THEN next ELSE "failed"

-----------------------------------------------------------------------------
(* The environment: what the host, the network and the child processes can do *)

Py397 == <<"3", ".", "9", ".", "7">>

Py3100 == <<"3", ".", "1", "0", ".", "0">>

KnownVersions == {<<3, 9, 7>>, <<3, 10, 0>>}

LibNames == {<<"a.lib">>, <<"b.lib">>}

TargetPaths ==
    {PipRel, GetPipRel}
        \cup {<<n>> : n \in InterpreterNames}
        \cup {PthRel(v) : v \in KnownVersions}
        \cup {LibRel(n) : n \in LibNames}

EmptyTarget == [p \in TargetPaths |-> NoFile]

\* The configuration file as the embeddable archive ships it.
PthStock == <<".", "\n", "#", "import site", "\n">>

PthActive == <<".", "\n", "import site", "\n">>

PthTwice == <<"#", "import site", "\n", "#", "import site", "\n">>

\* What the stdout of the host interpreter can be (default_python_version).
HostPythonStdout == {Py397 \o <<"\n">>, Py397 \o <<"\r", "\n">>, <<>>}

NoEntries == [p \in {} |-> <<>>]

\* Response bodies of the archive URL: zip archives and a body that is none.
ZipBodies(v) ==
    { [valid |-> TRUE,
       entries |-> (<<exe>> :> ArchiveData) @@ (PthRel(v) :> pth)]
        : exe \in InterpreterNames, pth \in {PthStock, PthActive, PthTwice} }
    \cup
    { [valid |-> TRUE, entries |-> (<<exe>> :> ArchiveData)]
        : exe \in InterpreterNames }
    \cup
    { [valid |-> TRUE,
       entries |-> (<<exe>> :> ArchiveData) @@ (PthRel(v) :> PthStock)
                    @@ (LibRel(<<"a.lib">>) :> ArchiveData)]
        : exe \in InterpreterNames }
    \cup
    { [valid |-> FALSE, entries |-> NoEntries] }

HttpStatuses == {200, 404}

\* StatusCode::is_success
IsSuccess(status) == status >= 200 /\ status <= 299

-----------------------------------------------------------------------------
(* main *)

\* main, lines 32-36: the version, given or asked of the host interpreter.
ResolveVersion ==
    /\ pc = "start"
    /\ \/ /\ verArg.some
          /\ LET r == python_version_from_str(verArg.val) IN
             /\ pyVersion' = IF r.ok THEN Some(r.val) ELSE None
             /\ err' = IF r.ok THEN NoError ELSE Error(r.kind)
             /\ pc' = Try(r.ok, "check")
          /\ UNCHANGED spawned
       \/ /\ ~verArg.some
          /\ spawned' = Append(spawned, [prog |-> <<"python">>, path |-> None])
          /\ \/ /\ pyVersion' = None
                /\ err' = Error("Io")
                /\ pc' = Try(FALSE, "check")
             \/ \E out \in HostPythonStdout :
                  LET r == python_version_from_str(out) IN
                  /\ pyVersion' = IF r.ok THEN Some(r.val) ELSE None
                  /\ err' = IF r.ok THEN NoError ELSE Error(r.kind)
                  /\ pc' = Try(r.ok, "check")
    /\ UNCHANGED <<inputs, before, libsDirSrc, fs, contents, pthFound, archiveResp, http, zipOpened,
                   extracted, log>>

\* A marker test that always asks for assembly.
NeedsAssembly_Always(files) == TRUE

\* main, line 40: assembly is needed unless the marker is a file.
NeedsAssembly(files) == ~is_file(files, PipRel)

\* main, lines 46-48, and line 50 when no manifest was given.
AfterAssembly == IF reqsArg.some THEN "reqs" ELSE "done"

\* main, lines 38-48: the marker test.
CheckMarker ==
    /\ pc = "check"
    /\ pc' = IF NeedsAssembly(fs) THEN "locate" ELSE AfterAssembly
    /\ UNCHANGED <<inputs, before, pyVersion, libsDirSrc, fs, contents, pthFound, archiveResp, http,
                   zipOpened, extracted, spawned, log, err>>

\* create_embedded_env, lines 82-85: the host library directory, then
\* create_dir_all, which can fail.
Locate ==
    /\ pc = "locate"
    /\ LET r == host_python_dir(pyVersion.val, pathEnv, hostLibs) IN
       \/ /\ ~r.ok
          /\ err' = r.err
          /\ pc' = Try(FALSE, "fetch")
          /\ UNCHANGED libsDirSrc
       \/ /\ r.ok
          /\ libsDirSrc' = Some(r.val)
          /\ \E io \in BOOLEAN :
                /\ err' = IF io THEN NoError ELSE Error("Io")
                /\ pc' = Try(io, "fetch")
    /\ UNCHANGED <<inputs, before, pyVersion, fs, contents, pthFound, archiveResp, http, zipOpened,
                   extracted, spawned, log>>

\* create_embedded_env, lines 87-96: one GET; the bytes of the response, of
\* whatever status, go to ZipArchive::new and are extracted.  A body that is
\* no archive is rejected before anything is written; an extraction that
\* fails has written the entries before the failing one, and of that one
\* nothing, a part or all.
Fetch ==
    /\ pc = "fetch"
    /\ before' = fs
    /\ http' = Append(http, python_embed_zip_url(pyVersion.val))
    /\ \/ /\ err' = Error("Reqwest")
          /\ pc' = Try(FALSE, "merge")
          /\ log' = Append(log, [phase |-> "fetch", ok |-> FALSE])
          /\ UNCHANGED <<archiveResp, zipOpened, extracted, fs>>
       \/ \E status \in HttpStatuses, body \in ZipBodies(pyVersion.val) :
            /\ archiveResp' = [some |-> TRUE, status |-> status, body |-> body]
            /\ zipOpened' = zipOpened + 1
            /\ \/ /\ body.valid
                  /\ fs' = Extract(fs, body.entries)
                  /\ extracted' = extracted + 1
                  /\ err' = NoError
                  /\ pc' = Try(TRUE, "merge")
                  /\ log' = Append(log, [phase |-> "fetch", ok |-> TRUE])
               \/ \E written \in SUBSET DOMAIN body.entries :
                    /\ \/ fs' = Extract(fs, Restrict(body.entries, written))
                       \/ \E cur \in DOMAIN body.entries \ written :
                            \E part \in PartlyWritten(body.entries[cur]) :
                              fs' = [Extract(fs, Restrict(body.entries, written))
                                        EXCEPT ![cur] = File(part)]
                    /\ extracted' = extracted
                    /\ err' = Error("Zip")
                    /\ pc' = Try(FALSE, "merge")
                    /\ log' = Append(log, [phase |-> "fetch", ok |-> FALSE])
    /\ UNCHANGED <<inputs, pyVersion, libsDirSrc, contents, pthFound, spawned>>

\* create_embedded_env, lines 98-110: fs_extra::dir::copy with skip_exist.
\* The copy goes entry by entry and returns at the first error, with the
\* entries before it copied and, when the error came while a new file was
\* written, a part of that file.
Merge ==
    /\ pc = "merge"
    /\ before' = fs
    /\ \/ /\ fs' = CopyLibs(fs, hostFiles)
          /\ err' = NoError
          /\ pc' = Try(TRUE, "patch")
          /\ log' = Append(log, [phase |-> "merge", ok |-> TRUE])
       \/ \E copied \in SUBSET DOMAIN hostFiles :
            /\ \/ fs' = CopyLibs(fs, Restrict(hostFiles, copied))
               \/ \E cur \in DOMAIN hostFiles \ copied :
                    /\ ~exists(fs, LibRel(cur))
                    /\ \E part \in PartlyWritten(hostFiles[cur]) :
                         fs' = [CopyLibs(fs, Restrict(hostFiles, copied))
                                   EXCEPT ![LibRel(cur)] = File(part)]
            /\ err' = Error("FsExtra")
            /\ pc' = Try(FALSE, "patch")
            /\ log' = Append(log, [phase |-> "merge", ok |-> FALSE])
    /\ UNCHANGED <<inputs, pyVersion, libsDirSrc, contents, pthFound, archiveResp, http,
                   zipOpened, extracted, spawned>>

\* create_embedded_env, lines 112-119: read, replace, write back.  The read
\* fails when the file is absent, and can fail on a file that is there (no
\* permission, bytes that are no UTF-8): nothing is read, nothing written.
\* A text without the directive is written back as it is.  fs::write
\* truncates and then writes: when it fails the file is as it was, or holds
\* a part of the new text.
Patch ==
    /\ pc = "patch"
    /\ before' = fs
    /\ LET p == PthRel(pyVersion.val) IN
       /\ pthFound' = fs[p]
       /\ \/ /\ err' = Error("Io")
             /\ pc' = Try(FALSE, "bootstrap")
             /\ log' = Append(log, [phase |-> "patch", ok |-> FALSE])
             /\ UNCHANGED <<fs, contents>>
          \/ /\ is_file(fs, p)
             /\ contents' = Some(fs[p].data)
             /\ \/ /\ fs' = [fs EXCEPT ![p] = File(Replace(fs[p].data, SiteOff, SiteOn))]
                   /\ err' = NoError
                   /\ pc' = Try(TRUE, "bootstrap")
                   /\ log' = Append(log, [phase |-> "patch", ok |-> TRUE])
                \/ /\ \/ fs' = fs
                      \/ \E part \in PartlyWritten(Replace(fs[p].data, SiteOff, SiteOn)) :
                           fs' = [fs EXCEPT ![p] = File(part)]
                   /\ err' = Error("Io")
                   /\ pc' = Try(FALSE, "bootstrap")
                   /\ log' = Append(log, [phase |-> "patch", ok |-> FALSE])
    /\ UNCHANGED <<inputs, pyVersion, libsDirSrc, archiveResp, http, zipOpened,
                   extracted, spawned>>

\* create_embedded_env, lines 121-153: GET the script, write it, run the
\* interpreter of the target directory on it with PATH overridden.  The
\* spawn fails when the operating system cannot start the program, which it
\* can only when the file is there.  The child may install the marker
\* executable, whatever its exit status.
Bootstrap ==
    /\ pc = "bootstrap"
    /\ before' = fs
    /\ http' = Append(http, GET_PIP_URL)
    /\ \/ /\ err' = Error("Reqwest")
          /\ pc' = Try(FALSE, AfterAssembly)
          /\ log' = Append(log, [phase |-> "bootstrap", ok |-> FALSE])
          /\ UNCHANGED <<fs, spawned>>
       \/ /\ \/ fs' = fs
             \/ \E script \in ScriptBodies :
                  \E part \in PartlyWritten(script) :
                    fs' = [fs EXCEPT ![GetPipRel] = File(part)]
          /\ err' = Error("Io")
          /\ pc' = Try(FALSE, AfterAssembly)
          /\ log' = Append(log, [phase |-> "bootstrap", ok |-> FALSE])
          /\ UNCHANGED spawned
       \/ /\ spawned' = Append(spawned, [prog |-> PathJoin(DistDir, "python"),
                                         path |-> Some(dist_env_path(DistDir))])
          /\ \E script \in ScriptBodies :
               LET written == [fs EXCEPT ![GetPipRel] = File(script)] IN
               \/ /\ fs' = written
                  /\ err' = Error("Io")
                  /\ pc' = Try(FALSE, AfterAssembly)
                  /\ log' = Append(log, [phase |-> "bootstrap", ok |-> FALSE])
               \/ /\ is_file(fs, PythonRel)
                  /\ \E success \in BOOLEAN, installed \in BOOLEAN :
                       /\ fs' = IF installed
                                THEN [written EXCEPT ![PipRel] = File(<<"PIP">>)]
                                ELSE written
                       /\ err' = IF success THEN NoError ELSE Error("GetPipFailed")
                       /\ pc' = Try(success, AfterAssembly)
                       /\ log' = Append(log, [phase |-> "bootstrap", ok |-> success])
    /\ UNCHANGED <<inputs, pyVersion, libsDirSrc, contents, pthFound, archiveResp, zipOpened,
                   extracted>>

\* install_requirements, lines 54-79: run the marker executable with PATH
\* overridden.  The spawn fails when the operating system cannot start the
\* program, which it can only when the file is there; a spawn error or a
\* non-zero exit ends the run.
install_requirements ==
    /\ pc = "reqs"
    /\ spawned' = Append(spawned, [prog |-> PathJoin(PathJoin(DistDir, "Scripts"), "pip.exe"),
                                   path |-> Some(dist_env_path(DistDir))])
    /\ \/ /\ err' = Error("Io")
          /\ pc' = Try(FALSE, "done")
          /\ log' = Append(log, [phase |-> "install", ok |-> FALSE])
       \/ /\ is_file(fs, PipRel)
          /\ \E ok \in BOOLEAN :
               /\ err' = IF ok THEN NoError ELSE Error("PipFailed")
               /\ pc' = Try(ok, "done")
               /\ log' = Append(log, [phase |-> "install", ok |-> ok])
    /\ UNCHANGED <<inputs, before, pyVersion, libsDirSrc, fs, contents, pthFound, archiveResp, http,
                   zipOpened, extracted>>

-----------------------------------------------------------------------------
(* The workflow: every run of main over a small world *)

CPython39 == << <<"C:">>, <<"Python", "3", "9">> >>

DPython39 == << <<"D:">>, <<"Python", "3", "9">> >>

CPython310 == << <<"C:">>, <<"Python", "3", "1", "0">> >>

CWindows == << <<"C:">>, <<"Windows">> >>

\* PATH and the host directories that have a libs subdirectory.
HostWorlds ==
    { [env |-> None, libs |-> {}],
      [env |-> Some(<<CWindows>>), libs |-> {}],
      [env |-> Some(<<CWindows, CPython39, CPython310>>), libs |-> {}],
      [env |-> Some(<<CPython39, DPython39, CPython310>>), libs |-> {DPython39, CPython310}],
      [env |-> Some(<<CWindows, CPython310, CPython39>>), libs |-> {CPython39, CPython310, CWindows}] }

\* The target directory before the run: absent or empty, left by a complete
\* earlier run, left by an interrupted one, or with a directory at the
\* marker's path.
TargetWorlds ==
    { EmptyTarget,
      [EmptyTarget EXCEPT ![PipRel] = File(<<"PIP">>),
                          ![<< <<"python.exe">> >>] = File(ArchiveData)],
      [EmptyTarget EXCEPT ![PipRel] = Dir],
      [EmptyTarget EXCEPT ![LibRel(<<"a.lib">>)] = File(<<"ORIGINAL">>)] }

HostFileWorlds ==
    { (<<"a.lib">> :> HostData),
      (<<"a.lib">> :> HostData) @@ (<<"b.lib">> :> HostData) }

NoResponse == [some |-> FALSE, status |-> 0, body |-> [valid |-> FALSE, entries |-> NoEntries]]

\* The state of a run before create_embedded_env has done anything.
Untouched ==
    /\ fs0 = fs
    /\ before = fs
    /\ libsDirSrc = None
    /\ contents = None
    /\ pthFound = NoFile
    /\ archiveResp = NoResponse
    /\ http = <<>>
    /\ zipOpened = 0
    /\ extracted = 0
    /\ log = <<>>
    /\ err = NoError

\* The state of a run before main has done anything.
Fresh ==
    /\ Untouched
    /\ pyVersion = None
    /\ spawned = <<>>

Init ==
    /\ pc = "start"
    /\ verArg \in {None, Some(Py397), Some(Py3100), Some(<<"3", ".", "9">>)}
    /\ reqsArg \in {None, Some(<<"requirements.txt">>)}
    /\ platform \in {"windows", "unix"}
    /\ \E w \in HostWorlds : pathEnv = w.env /\ hostLibs = w.libs
    /\ hostFiles \in HostFileWorlds
    /\ fs \in TargetWorlds
    /\ Fresh

Next ==
    \/ ResolveVersion
    \/ CheckMarker
    \/ Locate
    \/ Fetch
    \/ Merge
    \/ Patch
    \/ Bootstrap
    \/ install_requirements

Spec == Init /\ [][Next]_vars

-----------------------------------------------------------------------------
(* python_version_from_str over many strings *)

MaxDigits == 2

DigitPool == {"0", "3"}

RECURSIVE TextsUpTo(_, _)
\* Every text of 0..n tokens over the alphabet.
TextsUpTo(alphabet, n) ==
    IF n = 0 THEN {<<>>}
    ELSE LET shorter == TextsUpTo(alphabet, n - 1) IN
         shorter \cup {Append(t, a) : t \in shorter, a \in alphabet}

\* What may stand between the dots: numerals with and without leading zeros,
\* the largest u16 and its successor, signs, a letter, nothing.
Components ==
    (TextsUpTo(DigitPool, MaxDigits) \ {<<>>})
        \cup { <<"1", "0">>, <<"6", "5", "5", "3", "5">>, <<"6", "5", "5", "3", "6">>,
               <<"+", "3">>, <<"-", "1">>, <<"a">>, <<>> }

VersionStrings ==
    { pre \o a \o <<".">> \o b \o <<".">> \o c \o post :
        a \in Components, b \in Components, c \in Components,
        pre \in {<<>>, <<" ">>, <<"\t">>, <<"U+00A0">>},
        post \in {<<>>, <<"\n">>, <<"\r", "\n">>} }
    \cup { <<>>, <<"3">>, <<"3", ".", "9">>, <<"3", ".", "9", ".", "7", ".", "1">> }

InitParse ==
    /\ pc = "start"
    /\ verArg \in {None} \cup {Some(t) : t \in VersionStrings}
    /\ reqsArg = None
    /\ platform = "windows"
    /\ pathEnv = None
    /\ hostLibs = {}
    /\ hostFiles \in HostFileWorlds
    /\ fs = EmptyTarget
    /\ Fresh

SpecParse == InitParse /\ [][ResolveVersion]_vars

-----------------------------------------------------------------------------
(* host_python_dir over many search paths *)

MaxPathEntries == 3

CPython39Scripts == << <<"C:">>, <<"Python", "3", "9">>, <<"Scripts">> >>

PathEntries == {CPython39, DPython39, CPython310, CPython39Scripts}

RECURSIVE PathsUpTo(_)
PathsUpTo(n) ==
    IF n = 0 THEN {<<>>}
    ELSE LET shorter == PathsUpTo(n - 1) IN
         shorter \cup {Append(t, e) : t \in shorter, e \in PathEntries}

InitLocate ==
    /\ pc = "locate"
    /\ verArg = None
    /\ reqsArg = None
    /\ platform = "windows"
    /\ pathEnv \in {None} \cup {Some(t) : t \in PathsUpTo(MaxPathEntries)}
    /\ hostLibs \in SUBSET PathEntries
    /\ hostFiles \in HostFileWorlds
    /\ fs = EmptyTarget
    /\ Untouched
    /\ pyVersion \in {Some(<<3, 9, 7>>), Some(<<3, 10, 0>>), Some(<<31, 0, 0>>)}
    /\ spawned = <<[prog |-> <<"python">>, path |-> None]>>

SpecLocate == InitLocate /\ [][Locate]_vars

-----------------------------------------------------------------------------
(* The patch step over many configuration files *)

MaxPthLen == 5

PthTokens == {"#", "import site", "\n", "x"}

\* A run that has fetched and merged and is about to patch.
InitPatch ==
    /\ pc = "patch"
    /\ verArg = Some(Py397)
    /\ reqsArg = None
    /\ platform = "windows"
    /\ pathEnv = Some(<<CPython39>>)
    /\ hostLibs = {CPython39}
    /\ hostFiles = (<<"a.lib">> :> HostData)
    /\ pyVersion = Some(<<3, 9, 7>>)
    /\ libsDirSrc = Some(LibsOf(CPython39))
    /\ fs0 = EmptyTarget
    /\ \E pth \in {NoFile} \cup {File(t) : t \in TextsUpTo(PthTokens, MaxPthLen)} :
         /\ before = [EmptyTarget EXCEPT ![<< <<"python.exe">> >>] = File(ArchiveData),
                                         ![PthRel(<<3, 9, 7>>)] = pth]
         /\ fs = [before EXCEPT ![LibRel(<<"a.lib">>)] = File(HostData)]
         /\ archiveResp =
              [some |-> TRUE, status |-> 200,
               body |-> [valid |-> TRUE,
                         entries |-> IF pth = NoFile
                                     THEN (<< <<"python.exe">> >> :> ArchiveData)
                                     ELSE (<< <<"python.exe">> >> :> ArchiveData)
                                            @@ (PthRel(<<3, 9, 7>>) :> pth.data)]]
    /\ contents = None
    /\ pthFound = NoFile
    /\ http = <<python_embed_zip_url(<<3, 9, 7>>)>>
    /\ zipOpened = 1
    /\ extracted = 1
    /\ spawned = <<>>
    /\ log = <<[phase |-> "fetch", ok |-> TRUE], [phase |-> "merge", ok |-> TRUE]>>
    /\ err = NoError

SpecPatch == InitPatch /\ [][Patch]_vars

-----------------------------------------------------------------------------
(* Properties *)

MarkerAtStart == is_file(fs0, PipRel)

AssemblyPhases == {"fetch", "merge", "patch", "bootstrap"}

PhaseOrder == <<"fetch", "merge", "patch", "bootstrap", "install">>

Rank(phase) == CHOOSE i \in 1..Len(PhaseOrder) : PhaseOrder[i] = phase

Ran(phase) == \E i \in 1..Len(log) : log[i].phase = phase

LastPhase == IF log = <<>> THEN [phase |-> "none", ok |-> TRUE] ELSE log[Len(log)]

\* main has passed its marker test.
PastCheck == pyVersion.some /\ pc \notin {"start", "check"}

\* C1: in a run that starts with the marker executable present as a file,
\* no HTTP request is made, no response body is opened or extracted, no
\* assembly phase runs at any point, and once main has passed its marker
\* test the requirements install is the next step if and only if a manifest
\* path was given.
C1_MarkerSkipsAssembly ==
    MarkerAtStart =>
        /\ http = <<>>
        /\ zipOpened = 0
        /\ extracted = 0
        /\ \A i \in 1..Len(log) : log[i].phase \notin AssemblyPhases
        /\ pc \notin {"locate", "fetch", "merge", "patch", "bootstrap"}
        /\ PastCheck => ((pc = "reqs" \/ Ran("install")) <=> reqsArg.some)

C1_Witness ==
    /\ MarkerAtStart
    /\ reqsArg.some
    /\ pc = "done"
    /\ log = <<[phase |-> "install", ok |-> TRUE]>>

\* C2: the phases of a run are in the order fetch, merge, patch, bootstrap,
\* install, each at most once; the assembly phases start at fetch and leave
\* none out; install follows either all four of them or, when the marker was
\* there at the start, none; every phase but the last one run succeeded; and
\* when the last one run failed the run has ended in failure, with an error.
C2_PhasesInOrder ==
    /\ \A i \in 1..Len(log) :
         /\ log[i].phase \in AssemblyPhases => Rank(log[i].phase) = i
         /\ log[i].phase = "install" => (i = Len(PhaseOrder) \/ (i = 1 /\ MarkerAtStart))
         /\ i < Len(log) => log[i].ok
    /\ ~LastPhase.ok => (pc = "failed" /\ err # NoError)
    /\ pc = "failed" => err # NoError
    /\ pc = "done" => (LastPhase.ok /\ err = NoError)
    /\ pc = "merge" => LastPhase = [phase |-> "fetch", ok |-> TRUE]
    /\ pc = "patch" => LastPhase = [phase |-> "merge", ok |-> TRUE]
    /\ pc = "bootstrap" => LastPhase = [phase |-> "patch", ok |-> TRUE]
    /\ (pc = "reqs" /\ ~MarkerAtStart) => LastPhase = [phase |-> "bootstrap", ok |-> TRUE]

C2_Witness ==
    /\ pc = "failed"
    /\ Len(log) = 3
    /\ log[1].ok /\ log[2].ok
    /\ log[3] = [phase |-> "patch", ok |-> FALSE]
    /\ reqsArg.some

\* The positions of the search-path entries that qualify for version v: the
\* final component is "Python"+major+minor and libs is a directory.
Qualifying(v) ==
    IF pathEnv.some
    THEN { i \in 1..Len(pathEnv.val) :
             /\ pathEnv.val[i] # <<>>
             /\ pathEnv.val[i][Len(pathEnv.val[i])] = <<"Python">> \o DecChars(v[1]) \o DecChars(v[2])
             /\ pathEnv.val[i] \in hostLibs }
    ELSE {}

\* C3: when the marker is absent at the start and no search-path entry of
\* the target name has a libs directory, no HTTP request is ever made, and
\* once host_python_dir has run the run has failed before any phase; with
\* PATH set, the error is NotFound and names "Python"+major+minor.
C3_NoHostDirFailsBeforeNetwork ==
    (~MarkerAtStart /\ pyVersion.some /\ Qualifying(pyVersion.val) = {}) =>
        /\ http = <<>>
        /\ zipOpened = 0
        /\ pc \notin {"start", "check", "locate"} =>
             /\ pc = "failed"
             /\ log = <<>>
             /\ pathEnv.some =>
                  err = [kind |-> "NotFound",
                         name |-> <<"Python">> \o DecChars(pyVersion.val[1])
                                     \o DecChars(pyVersion.val[2])]

C3_Witness ==
    /\ ~MarkerAtStart
    /\ pyVersion = Some(<<3, 9, 7>>)
    /\ Qualifying(pyVersion.val) = {}
    /\ pathEnv.some
    /\ \E i \in 1..Len(pathEnv.val) : pathEnv.val[i] = CPython39
    /\ pc = "failed"
    /\ err = [kind |-> "NotFound", name |-> <<"Python", "3", "9">>]

\* C4: after the merge step, every file that was in the target directory
\* before it and has the name of a copied host library entry has the content
\* it had before; nothing that existed before the merge was changed.
C4_MergeNeverOverwrites ==
    LastPhase.phase = "merge" =>
        /\ \A n \in DOMAIN hostFiles :
             is_file(before, LibRel(n)) => fs[LibRel(n)] = before[LibRel(n)]
        /\ \A p \in TargetPaths : exists(before, p) => fs[p] = before[p]

C4_Witness ==
    /\ LastPhase = [phase |-> "merge", ok |-> TRUE]
    /\ is_file(before, LibRel(<<"a.lib">>))
    /\ before[LibRel(<<"a.lib">>)].data # hostFiles[<<"a.lib">>]
    /\ fs[LibRel(<<"a.lib">>)] = before[LibRel(<<"a.lib">>)]
    /\ ~exists(before, LibRel(<<"b.lib">>))
    /\ is_file(fs, LibRel(<<"b.lib">>))

Min(S) == CHOOSE i \in S : \A j \in S : i <= j

\* C5: once host_python_dir has run on a search path, its result is the libs
\* directory of the first qualifying entry, in search-path order; entries of
\* the right name without libs are passed over; it fails with NotFound,
\* naming the target, exactly when no entry qualifies.
C5_FirstQualifyingEntry ==
    (pc # "locate" /\ pathEnv.some) =>
        LET Q == Qualifying(pyVersion.val) IN
        IF Q = {}
        THEN /\ libsDirSrc = None
             /\ pc = "failed"
             /\ err = [kind |-> "NotFound",
                       name |-> <<"Python">> \o DecChars(pyVersion.val[1])
                                   \o DecChars(pyVersion.val[2])]
        ELSE /\ libsDirSrc = Some(Append(pathEnv.val[Min(Q)], <<"libs">>))
             /\ err.kind # "NotFound"

C5_Witness ==
    /\ pc = "fetch"
    /\ pyVersion = Some(<<3, 10, 0>>)
    /\ Len(pathEnv.val) = 3
    /\ pathEnv.val[1] = CPython39
    /\ pathEnv.val[2] = CPython310
    /\ pathEnv.val[3] = CPython310
    /\ hostLibs = {CPython39, CPython310}
    /\ libsDirSrc = Some(<< <<"C:">>, <<"Python", "3", "1", "0">>, <<"libs">> >>)

\* The positions at which the commented-out directive starts in a text.
Matches(s) == {i \in 1..(Len(s) - 1) : s[i] = "#" /\ s[i + 1] = "import site"}

\* The text without the tokens at the positions K, the rest in order.
Without(s, K) ==
    LET kept == (1..Len(s)) \ K
        nth(j) == CHOOSE i \in kept : Cardinality({k \in kept : k <= i}) = j
    IN  [j \in 1..Cardinality(kept) |-> s[nth(j)]]

PatchedFile == fs[PthRel(pyVersion.val)].data

PatchDone == LastPhase = [phase |-> "patch", ok |-> TRUE]

\* C6 as stated: the patch removes the "#" of the first occurrence of
\* "#import site" only; every other token of the file, a later occurrence
\* included, is unchanged.
C6_OnlyFirstOccurrence ==
    PatchDone =>
        PatchedFile =
            IF Matches(contents.val) = {} THEN contents.val
            ELSE Without(contents.val, {Min(Matches(contents.val))})

\* C6 amended: the patch removes the "#" of every occurrence of
\* "#import site"; every other token of the file is unchanged and in place.
C6_EveryOccurrence ==
    PatchDone =>
        PatchedFile = Without(contents.val, Matches(contents.val))

C6_Witness ==
    /\ PatchDone
    /\ Cardinality(Matches(contents.val)) = 2
    /\ Matches(PatchedFile) = {}
    /\ \E i \in 1..Len(contents.val) : contents.val[i] = "x"

\* C7 as stated: when the patch step finds the configuration file absent, or
\* present without "#import site", the step fails and the bootstrap (script
\* download, interpreter run) never happens.
C7_MissingDirectiveIsFatal ==
    (Ran("patch") /\ (pthFound = NoFile
                         \/ (pthFound.kind = "file" /\ Matches(pthFound.data) = {}))) =>
        /\ LastPhase = [phase |-> "patch", ok |-> FALSE]
        /\ pc = "failed"
        /\ \A i \in 1..Len(http) : http[i] # GET_PIP_URL
        /\ \A i \in 1..Len(spawned) : ~spawned[i].path.some

\* C8 as stated: when the archive GET fails in transport or returns a
\* non-success status, the fetch step fails with a request error, the body is
\* never handed to the archive reader and nothing is extracted.
C8_BadStatusIsFetchError ==
    (Ran("fetch") /\ (~archiveResp.some \/ ~IsSuccess(archiveResp.status))) =>
        /\ log = <<[phase |-> "fetch", ok |-> FALSE]>>
        /\ pc = "failed"
        /\ err.kind = "Reqwest"
        /\ zipOpened = 0
        /\ extracted = 0
        /\ fs = fs0

\* C9 as stated: every child process started with a PATH override gets the
\* target directory and its Scripts subdirectory joined by the path-list
\* separator of the platform.
C9_PathUsesPlatformSeparator ==
    \A i \in 1..Len(spawned) :
        spawned[i].path.some =>
            spawned[i].path.val =
                DistDir \o <<PathListSep>> \o DistDir \o <<DirSep, "Scripts">>

IsNumeral(s) == s # <<>> /\ \A i \in 1..Len(s) : \E d \in 0..9 : s[i] = Digits[d + 1]

RECURSIVE Power10(_)
Power10(n) == IF n = 0 THEN 1 ELSE 10 * Power10(n - 1)

\* The value of a numeral: the sum of its digits times their powers of ten.
RECURSIVE SumValue(_, _)
SumValue(s, i) ==
    IF i > Len(s) THEN 0
    ELSE (CHOOSE d \in 0..9 : s[i] = Digits[d + 1]) * Power10(Len(s) - i)
            + SumValue(s, i + 1)

\* A numeral as Display writes it, of a value a u16 holds.
IsCanonicalU16(s) ==
    /\ IsNumeral(s)
    /\ Len(s) > 1 => s[1] # "0"
    /\ SumValue(s, 1) <= 65535

\* The text is X.Y.Z with each of X, Y, Z satisfying P.
IsDotted(s, P(_)) ==
    \E i, j \in 1..Len(s) :
        /\ i < j
        /\ s[i] = "." /\ s[j] = "."
        /\ P(SubSeq(s, 1, i - 1))
        /\ P(SubSeq(s, i + 1, j - 1))
        /\ P(SubSeq(s, j + 1, Len(s)))

Parsed == verArg.some /\ pc # "start"

\* C10 as stated: every "X.Y.Z" of non-negative integers parses, and the
\* parsed triple formatted as "{}.{}.{}" is the input.
C10_RoundTripAllNumerals ==
    (Parsed /\ IsDotted(verArg.val, IsNumeral)) =>
        /\ pyVersion.some
        /\ FormatVersion(pyVersion.val) = verArg.val

\* C10 amended: every "X.Y.Z" whose X, Y, Z are numerals without sign or
\* leading zeros and of value at most 65535 parses, and the parsed triple
\* formatted as "{}.{}.{}" is the input.
C10_RoundTripCanonical ==
    (Parsed /\ IsDotted(verArg.val, IsCanonicalU16)) =>
        /\ pyVersion.some
        /\ pc = "check"
        /\ FormatVersion(pyVersion.val) = verArg.val

C10_Witness ==
    /\ Parsed
    /\ verArg.val = <<"6", "5", "5", "3", "5", ".", "1", "0", ".", "0">>
    /\ pyVersion = Some(<<65535, 10, 0>>)
    /\ FormatVersion(pyVersion.val) = verArg.val

=============================================================================
